---------------------------- MODULE Spec2Model ----------------------------
(***************************************************************************)
(* Command dispatch and device presence of the wabs parental-control       *)
(* backend: the command controller (getPendingCommands, acknowledge-       *)
(* Command, reportCommandResult, sendCommand, cancelCommand, retryCommand),*)
(* the Command model (markAsCompleted, markAsFailed, expiry hook, TTL      *)
(* index), the device heartbeat handler and the offline-devices cron job.  *)
(*                                                                         *)
(* Time is counted in seconds.  A Date that is not set is NoDate.          *)
(***************************************************************************)
EXTENDS Integers, Sequences, FiniteSets, TLC

VARIABLES
    now,        \* the wall clock (Date.now()), in seconds
    commands,   \* the Command collection: _id -> document
    nextId,     \* the next fresh _id
    devices,    \* the Device collection: deviceId -> document
    alerts,     \* the Alert collection, in creation order
    resp,       \* what the last finished handler answered, with its locals
    maxBackoff, \* history: per command, the largest backoff markAsFailed computed
    sweep,      \* the runs of the offline-devices cron job in flight
    hb,         \* the heartbeat handler in flight for each device
    calls,      \* the pulls and result reports in flight, between round trips
    saves       \* history: the saves of the offline-devices job, in order

vars == <<now, commands, nextId, devices, alerts, resp, maxBackoff, sweep, hb,
          calls, saves>>

----------------------------------------------------------------------------
(* Bounds of the model *)

MaxCommands == 1    \* command documents created in a run of Spec
MaxQueue == 2       \* command documents created in a run of SpecQueue
MaxFine == 1        \* seconds the clock advances within a day
MaxDays == 1        \* whole days the clock advances
MaxAlerts == 2      \* alert documents ever created
MaxSweeps == 1      \* runs of the offline-devices job in flight at once
MaxOverlap == 2     \* runs of the job in flight at once in SpecSweeps
MaxCalls == 2       \* pulls and result reports in flight at once in SpecRace
MaxRetried == 1     \* command documents created by retryCommand in SpecRetry

----------------------------------------------------------------------------
(* Program constants *)

NoDate == -1                \* a Date field that was never set
NoLevel == -1               \* an alert without data.batteryLevel
HourSec == 3600
DaySec == 86400
MaxRetries == 5             \* markAsFailed: retryCount >= 5, schema max: 5
NormalExpiryHours == 24
CriticalExpiryHours == 168
OfflineThresholdSec == 900  \* 15 * 60 * 1000 ms
DefaultMaxBatteryAlert == 20    \* settings.maxBatteryAlert default
CriticalBatteryLevel == 10      \* batteryLevel <= 10 ? 'critical' : 'medium'

DeviceIds == {"d1", "d2"}
ParentIds == {"p1", "p2"}
Priorities == {"low", "normal", "high", "critical"}
Statuses == {"pending", "sent", "delivered", "executing", "completed",
             "failed", "expired"}
\* the ids a caller can name, one of them never issued
CommandIds == 1..(MaxCommands + 1)
QueueIds == 1..(MaxQueue + 1)
RetryIds == 1..(MaxCommands + MaxRetried + 1)

\* two of the command types validateCommand accepts, and two request bodies'
\* data objects
Types == {"lock_device", "show_message"}
Payloads == {"data1", "data2"}

----------------------------------------------------------------------------
(* String order of the priority values: sort({priority: -1}) compares the  *)
(* stored strings, code unit by code unit.                                 *)

PriorityChars ==
    [critical |-> <<99, 114, 105, 116, 105, 99, 97, 108>>,
     high     |-> <<104, 105, 103, 104>>,
     low      |-> <<108, 111, 119>>,
     normal   |-> <<110, 111, 114, 109, 97, 108>>]

RECURSIVE StrLess(_, _)
StrLess(a, b) ==
    IF b = <<>> THEN FALSE
    ELSE IF a = <<>> THEN TRUE
    ELSE IF Head(a) # Head(b) THEN Head(a) < Head(b)
    ELSE StrLess(Tail(a), Tail(b))

\* p sorts strictly before q under {priority: -1}
PriorityBefore(p, q) == StrLess(PriorityChars[q], PriorityChars[p])

\* document a sorts strictly before document b under
\* sort({priority: -1, createdAt: 1})
SortsBefore(a, b) ==
    \/ PriorityBefore(a.priority, b.priority)
    \/ /\ a.priority = b.priority
       /\ a.createdAt < b.createdAt

----------------------------------------------------------------------------
(* Command model *)

\* pre('save'): default expiration by priority
DefaultExpiresAt(priority, t) ==
    LET expirationHours == IF priority = "critical" THEN CriticalExpiryHours
                           ELSE NormalExpiryHours
    IN  t + expirationHours * HourSec

\* variant: the hook never fills in a deadline
ExpiryHookNever(expiresAt, priority, t) == expiresAt

\* variant: every priority gets the normal horizon
ExpiryHookFlat(expiresAt, priority, t) ==
    IF expiresAt = NoDate THEN t + NormalExpiryHours * HourSec ELSE expiresAt

\* pre('save'): if (!this.expiresAt) the deadline is computed, otherwise the
\* one the document carries is kept
ExpiryHook(expiresAt, priority, t) ==
    IF expiresAt = NoDate THEN DefaultExpiresAt(priority, t) ELSE expiresAt

\* Command.create({deviceId, parentId, type, command, priority}) at time t
NewCommand(d, p, type, data, priority, t) ==
    [deviceId |-> d, parentId |-> p, type |-> type, command |-> data,
     priority |-> priority,
     status |-> "pending", createdAt |-> t,
     expiresAt |-> ExpiryHook(NoDate, priority, t),
     retryCount |-> 0, nextRetryAt |-> NoDate,
     deliveredAt |-> NoDate, executedAt |-> NoDate,
     hasResult |-> FALSE, failureReason |-> FALSE]

RECURSIVE Pow2(_)
Pow2(n) == IF n = 0 THEN 1 ELSE 2 * Pow2(n - 1)

\* variant: a backoff that grows linearly
BackoffLinear(retryCount) == 2 * retryCount

\* variant: the exponent is the count before the increment
BackoffStale(retryCount) == Pow2(retryCount - 1)

\* Math.pow(2, this.retryCount) * 1000 ms, in seconds
Backoff(retryCount) == Pow2(retryCount)

\* the retry branch of markAsFailed is taken below this count
RetryExhausted(retryCount) == retryCount >= MaxRetries

\* markAsFailed on the in-memory document c at time t, before save()
MarkAsFailed(c, t) ==
    LET rc == c.retryCount + 1 IN
    IF RetryExhausted(rc)
    THEN [c EXCEPT !.retryCount = rc, !.failureReason = TRUE,
                   !.status = "failed"]
    ELSE [c EXCEPT !.retryCount = rc, !.failureReason = TRUE,
                   !.status = "pending",
                   !.nextRetryAt = t + Backoff(rc)]

\* variant: the result is stored in the field of the payload
MarkAsCompletedInPayload(c, t) ==
    [c EXCEPT !.status = "completed", !.executedAt = t, !.command = "result"]

\* markAsCompleted on the in-memory document c at time t, before save()
MarkAsCompleted(c, t) ==
    [c EXCEPT !.status = "completed", !.executedAt = t, !.hasResult = TRUE]

\* variant: save() runs no validator
ValidatesAnything(c) == TRUE

\* schema validation run by save(): retryCount has max: 5
Validates(c) == c.retryCount <= MaxRetries

\* the paths save() writes: those whose value differs from the one loaded
SetModified(stored, loaded, changed) ==
    [f \in DOMAIN stored |->
        IF f \in DOMAIN changed /\ changed[f] # loaded[f]
        THEN changed[f] ELSE stored[f]]

----------------------------------------------------------------------------
(* Queries of the command controller *)

\* variant: only documents still pending are selected
PendingFilterPendingOnly(c, d, t) ==
    /\ c.deviceId = d
    /\ c.status = "pending"
    /\ c.expiresAt > t

\* variant: the deadline itself still counts as unexpired
PendingFilterInclusive(c, d, t) ==
    /\ c.deviceId = d
    /\ c.status \in {"pending", "sent"}
    /\ c.expiresAt >= t

\* variant: the query has no condition on the deadline
PendingFilterNoDeadline(c, d, t) ==
    /\ c.deviceId = d
    /\ c.status \in {"pending", "sent"}

\* variant: the query is not restricted to the device
PendingFilterAnyDevice(c, d, t) ==
    /\ c.status \in {"pending", "sent"}
    /\ c.expiresAt > t

\* Command.find({deviceId, status: {$in: ['pending','sent']},
\*               expiresAt: {$gt: new Date()}})
PendingFilter(c, d, t) ==
    /\ c.deviceId = d
    /\ c.status \in {"pending", "sent"}
    /\ c.expiresAt > t

FindPending(d, t) == {id \in DOMAIN commands : PendingFilter(commands[id], d, t)}

\* the orders in which a cursor can return the documents `ids`
Orderings(ids) ==
    {s \in [1..Cardinality(ids) -> ids] :
        \A i, j \in 1..Cardinality(ids) : i # j => s[i] # s[j]}

\* s respects sort({priority: -1, createdAt: 1}); documents that agree on
\* both keys come back in either order
Sorted(s) ==
    \A i, j \in 1..Len(s) :
        i < j => ~SortsBefore(commands[s[j]], commands[s[i]])

StatusesOf(s) == [i \in 1..Len(s) |-> commands[s[i]].status]

----------------------------------------------------------------------------
(* Initial state: two linked, active devices and empty collections *)

\* io.to(room).emit(name, {...}): the event's name, the room it is sent to,
\* and the command id and success flag it carries
NoEvent == [name |-> "none", room |-> "none", id |-> 0, success |-> FALSE]

Event(name, room, id, success) ==
    [name |-> name, room |-> room, id |-> id, success |-> success]

NoResp == [op |-> "none", code |-> 0, dev |-> "none", id |-> 0,
           list |-> <<>>, read |-> <<>>, event |-> NoEvent]

\* op: the handler; code: the HTTP status; dev, id: the device and command
\* the request named; list: the command ids in the response body, in order;
\* read: the status of each document as the handler's query returned it;
\* event: the socket event the handler emitted, if any
Answer(op, code, d, id, list, read) ==
    [op |-> op, code |-> code, dev |-> d, id |-> id,
     list |-> list, read |-> read, event |-> NoEvent]

\* the answer of a handler that emitted event e before it responded
Emitting(a, e) == [a EXCEPT !.event = e]

OwnerOf == [d \in DeviceIds |-> IF d = "d1" THEN "p1" ELSE "p2"]

NewDevice(d) ==
    [parentId |-> OwnerOf[d], status |-> "active", isOnline |-> FALSE,
     lastHeartbeat |-> NoDate, batteryLevel |-> 0, isCharging |-> FALSE,
     isBlocked |-> FALSE, maxBatteryAlert |-> DefaultMaxBatteryAlert]

SweepIds == 1..MaxSweeps
SweepSlots == 1..MaxOverlap
CallIds == 1..MaxCalls

\* a run of the offline-devices job: todo is the rest of `devices` (the
\* documents find() returned, the one being processed first), seen the
\* lastHeartbeat each of those documents holds
NoSweep == [pc |-> "idle", todo |-> <<>>, seen |-> <<>>]

\* a heartbeat request: the body's batteryLevel, isCharging and whether it
\* carries further fields (otherData), and the document findOne() returned
NoHb == [pc |-> "idle", batteryLevel |-> 0, isCharging |-> FALSE,
         other |-> FALSE, doc |-> <<>>]

\* a pull or a result report between its query and its write: the request
\* (dev, or id and success), the ids find() returned with the status each
\* document had (list, read), or the document findById() returned (doc)
NoCall == [pc |-> "idle", dev |-> "none", id |-> 0, success |-> FALSE,
           list |-> <<>>, read |-> <<>>, doc |-> <<>>]

\* the battery levels the heartbeats of SpecPresence report
PresenceLevels == {15, 50}

Init ==
    /\ now = 0
    /\ commands = <<>>
    /\ nextId = 1
    /\ devices = [d \in DeviceIds |-> NewDevice(d)]
    /\ alerts = <<>>
    /\ resp = NoResp
    /\ maxBackoff = <<>>
    /\ sweep = [k \in SweepSlots |-> NoSweep]
    /\ hb = [d \in DeviceIds |-> NoHb]
    /\ calls = [k \in CallIds |-> NoCall]
    /\ saves = <<>>

commandVars == <<commands, nextId, maxBackoff>>

----------------------------------------------------------------------------
(* The clock and the TTL index *)

TickSteps == {1, DaySec}

\* the clock may advance by d within the bounds of the model
InBounds(d) ==
    /\ (now + d) % DaySec <= MaxFine
    /\ (now + d) \div DaySec <= MaxDays

Tick(d) ==
    /\ InBounds(d)
    /\ now' = now + d
    /\ UNCHANGED <<commands, nextId, devices, alerts, resp, maxBackoff, sweep, hb, calls, saves>>

\* expiresAt carries a TTL index (expires: 0): the store removes a document
\* once its expiresAt has passed
TTLDelete(id) ==
    /\ id \in DOMAIN commands
    /\ commands[id].expiresAt <= now
    /\ commands' = [i \in DOMAIN commands \ {id} |-> commands[i]]
    /\ maxBackoff' = [i \in DOMAIN maxBackoff \ {id} |-> maxBackoff[i]]
    /\ UNCHANGED <<now, nextId, devices, alerts, resp, sweep, hb, calls, saves>>

----------------------------------------------------------------------------
(* Command controller, each handler as one step *)

\* variant: the device's parent is not looked at
ActiveDeviceAnyParent(d, p) ==
    /\ d \in DOMAIN devices
    /\ devices[d].status = "active"

\* variant: the device's status is not looked at
ActiveDeviceAnyStatus(d, p) ==
    /\ d \in DOMAIN devices
    /\ devices[d].parentId = p

\* Device.findOne({deviceId, parentId: req.user._id, status: 'active'})
\* finds a document
ActiveDevice(d, p) ==
    /\ d \in DOMAIN devices
    /\ devices[d].parentId = p
    /\ devices[d].status = "active"

\* Command.create with expiresAt among the fields (NoDate: not supplied)
CreateCommand(d, p, type, data, priority, expiresAt) ==
    /\ commands' = (nextId :> [NewCommand(d, p, type, data, priority, now)
                                   EXCEPT !.expiresAt =
                                       ExpiryHook(expiresAt, priority, now)])
                        @@ commands
    /\ maxBackoff' = (nextId :> 0) @@ maxBackoff
    /\ nextId' = nextId + 1
    /\ resp' = Answer("create", 0, d, nextId, <<>>, <<>>)
    /\ UNCHANGED <<now, devices, alerts, sweep, hb, calls, saves>>

\* sendCommand by parent p for device d, with body {type, data, priority}
SendCommand(d, p, type, data, priority) ==
    /\ IF ActiveDevice(d, p)
       THEN /\ commands' = (nextId :> NewCommand(d, p, type, data, priority, now))
                                @@ commands
            /\ maxBackoff' = (nextId :> 0) @@ maxBackoff
            /\ nextId' = nextId + 1
            /\ resp' = Emitting(Answer("issue", 201, d, nextId, <<>>, <<>>),
                                Event("new-command", d, nextId, FALSE))
       ELSE /\ resp' = Answer("issue", 404, d, 0, <<>>, <<>>)
            /\ UNCHANGED commandVars
    /\ UNCHANGED <<now, devices, alerts, sweep, hb, calls, saves>>

\* getPendingCommands for device d
GetPendingCommands(d) ==
    \E s \in Orderings(FindPending(d, now)) :
        /\ Sorted(s)
        /\ commands' = [id \in DOMAIN commands |->
                           IF id \in FindPending(d, now)
                           THEN [commands[id] EXCEPT !.status = "sent"]
                           ELSE commands[id]]
        /\ resp' = Answer("pull", 200, d, 0, s, StatusesOf(s))
        /\ UNCHANGED <<now, nextId, devices, alerts, maxBackoff, sweep, hb, calls, saves>>

\* variant: an id that is not stored is answered with success
NotFoundAnswersOk(op, id) == Answer(op, 200, "none", id, <<>>, <<>>)

\* if (!command) return res.status(404).json({success: false, ...})
NotFound(op, id) == Answer(op, 404, "none", id, <<>>, <<>>)

\* acknowledgeCommand: findByIdAndUpdate(commandId, {status: 'delivered'})
AcknowledgeCommand(id) ==
    /\ IF id \in DOMAIN commands
       THEN /\ commands' = [commands EXCEPT ![id].status = "delivered"]
            /\ resp' = Answer("ack", 200, commands[id].deviceId, id,
                              <<>>, <<commands[id].status>>)
       ELSE /\ resp' = NotFound("ack", id)
            /\ UNCHANGED commands
    /\ UNCHANGED <<now, nextId, devices, alerts, maxBackoff, sweep, hb, calls, saves>>

\* variant: the event goes to the room of the device
ResultEventToDevice(c, id, success) ==
    Event("command-result", c.deviceId, id, success)

\* io.to(command.parentId.toString()).emit('command-result',
\*     {commandId, success, ...})
ResultEvent(c, id, success) ==
    Event("command-result", c.parentId, id, success)

\* reportCommandResult with body.success = success
ReportCommandResult(id, success) ==
    /\ IF id \notin DOMAIN commands
       THEN /\ resp' = NotFound("report", id)
            /\ UNCHANGED <<commands, maxBackoff>>
       ELSE LET c == commands[id]
                doc == IF success THEN MarkAsCompleted(c, now)
                       ELSE MarkAsFailed(c, now)
                backoff == IF ~success /\ doc.status = "pending"
                           THEN Backoff(doc.retryCount) ELSE 0
            IN  IF Validates(doc)
                THEN /\ commands' = [commands EXCEPT ![id] = doc]
                     /\ maxBackoff' = [maxBackoff EXCEPT ![id] =
                            IF backoff > @ THEN backoff ELSE @]
                     /\ resp' = Emitting(Answer("report", 200, c.deviceId, id,
                                                <<>>, <<c.status>>),
                              ResultEvent(c, id, success))
                ELSE /\ resp' = Answer("report", 500, c.deviceId, id, <<>>,
                                       <<c.status>>)
                     /\ UNCHANGED <<commands, maxBackoff>>
    /\ UNCHANGED <<now, nextId, devices, alerts, sweep, hb, calls, saves>>

\* reportCommandResult when io.to(...).emit(...) throws after the save: the
\* catch block answers 500
ReportPublishFails(id, success) ==
    /\ id \in DOMAIN commands
    /\ LET c == commands[id]
           doc == IF success THEN MarkAsCompleted(c, now)
                  ELSE MarkAsFailed(c, now)
           backoff == IF ~success /\ doc.status = "pending"
                      THEN Backoff(doc.retryCount) ELSE 0
       IN  /\ Validates(doc)
           /\ commands' = [commands EXCEPT ![id] = doc]
           /\ maxBackoff' = [maxBackoff EXCEPT ![id] =
                  IF backoff > @ THEN backoff ELSE @]
           /\ resp' = Answer("report", 500, c.deviceId, id, <<>>, <<c.status>>)
    /\ UNCHANGED <<now, nextId, devices, alerts, sweep, hb, calls, saves>>

\* variant: a delivered command may still be cancelled
CancelFilterDelivered(c, p) ==
    /\ c.parentId = p
    /\ c.status \in {"pending", "sent", "delivered"}

\* the filter of cancelCommand's findOneAndUpdate, besides the _id
CancelFilter(c, p) ==
    /\ c.parentId = p
    /\ c.status \in {"pending", "sent"}

\* cancelCommand by parent p
CancelCommand(id, p) ==
    /\ IF /\ id \in DOMAIN commands
          /\ CancelFilter(commands[id], p)
       THEN /\ commands' = [commands EXCEPT ![id].status = "expired"]
            /\ resp' = Answer("cancel", 200, commands[id].deviceId, id,
                              <<>>, <<commands[id].status>>)
       ELSE /\ resp' = Answer("cancel", 404, "none", id, <<>>, <<>>)
            /\ UNCHANGED commands
    /\ UNCHANGED <<now, nextId, devices, alerts, maxBackoff, sweep, hb, calls, saves>>

\* variant: any parent may retry
RetryFilterAnyParent(c, p) ==
    c.status = "failed"

\* the filter of retryCommand's findOne, besides the _id
RetryFilter(c, p) ==
    /\ c.parentId = p
    /\ c.status = "failed"

\* variant: the copy falls back to the default priority
RetryCopyDefaultPriority(c, t) ==
    NewCommand(c.deviceId, c.parentId, c.type, c.command, "normal", t)

\* the document retryCommand creates from the failed command c at time t
RetryCopy(c, t) ==
    NewCommand(c.deviceId, c.parentId, c.type, c.command, c.priority, t)

\* retryCommand by parent p
RetryCommand(id, p) ==
    /\ IF /\ id \in DOMAIN commands
          /\ RetryFilter(commands[id], p)
       THEN LET c == commands[id] IN
            /\ commands' = (nextId :> RetryCopy(c, now)) @@ commands
            /\ maxBackoff' = (nextId :> 0) @@ maxBackoff
            /\ nextId' = nextId + 1
            /\ resp' = Answer("retry", 200, c.deviceId, nextId, <<>>,
                              <<c.status>>)
       ELSE /\ resp' = Answer("retry", 404, "none", id, <<>>, <<>>)
            /\ UNCHANGED commandVars
    /\ UNCHANGED <<now, devices, alerts, sweep, hb, calls, saves>>

----------------------------------------------------------------------------
(* getPendingCommands and reportCommandResult, one step per database round *)
(* trip                                                                    *)

\* the ids of a call's list
ListIds(c) == {c.list[i] : i \in 1..Len(c.list)}

\* Command.find(...).sort(...); with nothing found the handler answers at
\* once
PullFind(k, d) ==
    /\ calls[k].pc = "idle"
    /\ \E s \in Orderings(FindPending(d, now)) :
           /\ Sorted(s)
           /\ IF s = <<>>
              THEN /\ resp' = Answer("pull", 200, d, 0, <<>>, <<>>)
                   /\ UNCHANGED calls
              ELSE /\ calls' = [calls EXCEPT ![k] =
                          [NoCall EXCEPT !.pc = "update", !.dev = d,
                                         !.list = s, !.read = StatusesOf(s)]]
                   /\ UNCHANGED resp
    /\ UNCHANGED <<now, commands, nextId, devices, alerts, maxBackoff, sweep, hb, saves>>

\* Command.updateMany({_id: {$in: commandIds}}, {status: 'sent'}), then the
\* response built from the documents find() returned
PullUpdate(k) ==
    /\ calls[k].pc = "update"
    /\ commands' = [id \in DOMAIN commands |->
                       IF id \in ListIds(calls[k])
                       THEN [commands[id] EXCEPT !.status = "sent"]
                       ELSE commands[id]]
    /\ resp' = Answer("pull", 200, calls[k].dev, 0, calls[k].list, calls[k].read)
    /\ calls' = [calls EXCEPT ![k] = NoCall]
    /\ UNCHANGED <<now, nextId, devices, alerts, maxBackoff, sweep, hb, saves>>

\* Command.findById(commandId)
ReportFind(k, id, success) ==
    /\ calls[k].pc = "idle"
    /\ IF id \notin DOMAIN commands
       THEN /\ resp' = NotFound("report", id)
            /\ UNCHANGED calls
       ELSE /\ calls' = [calls EXCEPT ![k] =
                   [NoCall EXCEPT !.pc = "save", !.id = id, !.success = success,
                                  !.doc = commands[id]]]
            /\ UNCHANGED resp
    /\ UNCHANGED <<now, commands, nextId, devices, alerts, maxBackoff, sweep, hb, saves>>

\* markAsCompleted / markAsFailed on the loaded document, then save(): the
\* validators run, and the paths that were modified are written to the stored
\* document; a document that is gone makes save() throw
ReportSave(k) ==
    /\ calls[k].pc = "save"
    /\ LET c == calls[k].doc
           id == calls[k].id
           doc == IF calls[k].success THEN MarkAsCompleted(c, now)
                  ELSE MarkAsFailed(c, now)
           backoff == IF ~calls[k].success /\ doc.status = "pending"
                      THEN Backoff(doc.retryCount) ELSE 0
       IN  IF Validates(doc) /\ id \in DOMAIN commands
           THEN /\ commands' = [commands EXCEPT ![id] = SetModified(@, c, doc)]
                /\ maxBackoff' = [maxBackoff EXCEPT ![id] =
                       IF backoff > @ THEN backoff ELSE @]
                /\ resp' = Emitting(Answer("report", 200, c.deviceId, id, <<>>,
                                           <<c.status>>),
                         ResultEvent(c, id, calls[k].success))
           ELSE /\ resp' = Answer("report", 500, c.deviceId, id, <<>>,
                                  <<c.status>>)
                /\ UNCHANGED <<commands, maxBackoff>>
    /\ calls' = [calls EXCEPT ![k] = NoCall]
    /\ UNCHANGED <<now, nextId, devices, alerts, sweep, hb, saves>>

----------------------------------------------------------------------------
(* Device controller: receiveHeartbeat, one step per database round trip *)

\* what the handlers use of a loaded Device document
Loaded(dev) ==
    [parentId |-> dev.parentId, isOnline |-> dev.isOnline,
     batteryLevel |-> dev.batteryLevel, isCharging |-> dev.isCharging,
     maxBatteryAlert |-> dev.maxBatteryAlert]

\* variant: a level equal to the threshold raises no alert
LowBatteryStrict(batteryLevel, isCharging, doc) ==
    batteryLevel < doc.maxBatteryAlert /\ ~isCharging

\* the low-battery test of receiveHeartbeat
LowBattery(batteryLevel, isCharging, doc) ==
    batteryLevel <= doc.maxBatteryAlert /\ ~isCharging

LowBatterySeverity(batteryLevel) ==
    IF batteryLevel <= CriticalBatteryLevel THEN "critical" ELSE "medium"

\* where the handler goes once updateHeartbeat has been saved
AfterSave(h) ==
    IF h.other THEN "other"
    ELSE IF LowBattery(h.batteryLevel, h.isCharging, h.doc) THEN "alert"
    ELSE "find"

AfterOther(h) ==
    IF LowBattery(h.batteryLevel, h.isCharging, h.doc) THEN "alert" ELSE "find"

\* Device.findOne({deviceId}) for a registered device
HbFindOne(d, batteryLevel, isCharging, other) ==
    /\ hb[d].pc = "idle"
    /\ hb' = [hb EXCEPT ![d] = [pc |-> "save", batteryLevel |-> batteryLevel,
                                isCharging |-> isCharging, other |-> other,
                                doc |-> Loaded(devices[d])]]
    /\ UNCHANGED <<now, commands, nextId, devices, alerts, resp, maxBackoff, sweep, calls, saves>>

\* Device.findOne({deviceId}) finds nothing: 404
HbNotRegistered(d) ==
    /\ d \notin DOMAIN devices
    /\ resp' = Answer("heartbeat", 404, d, 0, <<>>, <<>>)
    /\ UNCHANGED <<now, commands, nextId, devices, alerts, maxBackoff, sweep, hb, calls, saves>>

\* device.updateHeartbeat(batteryLevel, isCharging): save()
HbSave(d) ==
    /\ hb[d].pc = "save"
    /\ LET h == hb[d]
           changed == [h.doc EXCEPT !.isOnline = TRUE,
                                    !.batteryLevel = h.batteryLevel,
                                    !.isCharging = h.isCharging]
       IN  /\ devices' = [devices EXCEPT ![d] =
                  [SetModified(@, h.doc, changed) EXCEPT !.lastHeartbeat = now]]
           /\ hb' = [hb EXCEPT ![d].pc = AfterSave(h)]
    /\ UNCHANGED <<now, commands, nextId, alerts, resp, maxBackoff, sweep, calls, saves>>

\* Device.findByIdAndUpdate(device._id, {...otherData, lastHeartbeat: new Date()})
HbOther(d) ==
    /\ hb[d].pc = "other"
    /\ devices' = [devices EXCEPT ![d].lastHeartbeat = now]
    /\ hb' = [hb EXCEPT ![d].pc = AfterOther(hb[d])]
    /\ UNCHANGED <<now, commands, nextId, alerts, resp, maxBackoff, sweep, calls, saves>>

\* Alert.create({type: 'low_battery', ...})
HbAlert(d) ==
    /\ hb[d].pc = "alert"
    /\ alerts' = Append(alerts,
           [deviceId |-> d, parentId |-> hb[d].doc.parentId,
            type |-> "low_battery",
            severity |-> LowBatterySeverity(hb[d].batteryLevel),
            batteryLevel |-> hb[d].batteryLevel,
            pushSent |-> FALSE, emailSent |-> FALSE])
    /\ hb' = [hb EXCEPT ![d].pc = "find"]
    /\ UNCHANGED <<now, commands, nextId, devices, resp, maxBackoff, sweep, calls, saves>>

\* Alert.create rejects (the store refuses the write): the catch block
\* answers 500 and the handler ends
HbAlertFails(d) ==
    /\ hb[d].pc = "alert"
    /\ resp' = Answer("heartbeat", 500, d, 0, <<>>, <<>>)
    /\ hb' = [hb EXCEPT ![d] = NoHb]
    /\ UNCHANGED <<now, commands, nextId, devices, alerts, maxBackoff, sweep, calls, saves>>

\* Command.find({deviceId, status: {$in: [...]}, expiresAt: {$gt: new Date()}})
\* with no sort, then the response
HbRespond(d) ==
    /\ hb[d].pc = "find"
    /\ \E s \in Orderings(FindPending(d, now)) :
           resp' = Emitting(Answer("heartbeat", 200, d, 0, s, StatusesOf(s)),
                            Event("heartbeat-received", hb[d].doc.parentId,
                                  0, FALSE))
    /\ hb' = [hb EXCEPT ![d] = NoHb]
    /\ UNCHANGED <<now, commands, nextId, devices, alerts, maxBackoff, sweep, calls, saves>>

----------------------------------------------------------------------------
(* Device controller: updateDeviceSettings, toggleDeviceBlock, deleteDevice *)

\* the maxBatteryAlert a settings body can carry; NoSetting: the body has none
NoSetting == -1
SettingLevels == {10, 30}

\* a settings object without maxBatteryAlert replaces the stored one, and the
\* schema default is what a later findOne() returns
StoredSetting(m) == IF m = NoSetting THEN DefaultMaxBatteryAlert ELSE m

\* updateDeviceSettings by parent p with body {maxBatteryAlert: m}
UpdateDeviceSettings(d, p, m) ==
    /\ IF ActiveDevice(d, p)
       THEN /\ devices' = [devices EXCEPT ![d].maxBatteryAlert = StoredSetting(m)]
            /\ commands' = (nextId :> NewCommand(d, p, "update_settings",
                                                 "settings", "high", now))
                                @@ commands
            /\ maxBackoff' = (nextId :> 0) @@ maxBackoff
            /\ nextId' = nextId + 1
            /\ resp' = Answer("settings", 200, d, nextId, <<>>, <<>>)
       ELSE /\ resp' = Answer("settings", 404, d, 0, <<>>, <<>>)
            /\ UNCHANGED <<devices, commands, maxBackoff, nextId>>
    /\ UNCHANGED <<now, alerts, sweep, hb, calls, saves>>

\* toggleDeviceBlock by parent p with body {blocked}: the filter is
\* {deviceId, parentId}
ToggleDeviceBlock(d, p, blocked) ==
    /\ IF d \in DOMAIN devices /\ devices[d].parentId = p
       THEN /\ devices' = [devices EXCEPT ![d].isBlocked = blocked]
            /\ commands' = (nextId :> NewCommand(d, p,
                                IF blocked THEN "lock_device" ELSE "unlock_device",
                                "reason", "high", now))
                                @@ commands
            /\ maxBackoff' = (nextId :> 0) @@ maxBackoff
            /\ nextId' = nextId + 1
            /\ resp' = Answer("block", 200, d, nextId, <<>>, <<>>)
       ELSE /\ resp' = Answer("block", 404, d, 0, <<>>, <<>>)
            /\ UNCHANGED <<devices, commands, maxBackoff, nextId>>
    /\ UNCHANGED <<now, alerts, sweep, hb, calls, saves>>

\* deleteDevice by parent p: the filter is {deviceId, parentId}
DeleteDevice(d, p) ==
    /\ IF d \in DOMAIN devices /\ devices[d].parentId = p
       THEN /\ devices' = [devices EXCEPT ![d].status = "deleted"]
            /\ resp' = Answer("delete", 200, d, 0, <<>>, <<>>)
       ELSE /\ resp' = Answer("delete", 404, d, 0, <<>>, <<>>)
            /\ UNCHANGED devices
    /\ UNCHANGED <<now, commands, nextId, alerts, maxBackoff, sweep, hb, calls, saves>>

----------------------------------------------------------------------------
(* Alert controller: createAlert and sendAlertNotifications *)

Severities == {"low", "medium", "high", "critical"}

\* the alert types the devices of the model report
ReportedTypes == {"tamper_attempt", "geofence_breach"}

\* the notifications sendAlertNotifications dispatches, in order: a push for
\* critical and high, then an email for critical
Dispatches(severity) ==
    IF severity = "critical" THEN <<"push", "email">>
    ELSE IF severity = "high" THEN <<"push">>
    ELSE <<>>

\* alert.pushSent = true; if (alert.severity === 'critical')
\* alert.emailSent = true; await alert.save()
NotificationStatus(alert) ==
    [alert EXCEPT !.pushSent = TRUE,
                  !.emailSent = IF alert.severity = "critical" THEN TRUE ELSE @]

\* createAlert for deviceId d with body {type, severity}; the answer lists
\* the notifications that were dispatched
CreateAlert(d, type, severity) ==
    /\ IF d \in DOMAIN devices
       THEN /\ alerts' = Append(alerts, NotificationStatus(
                   [deviceId |-> d, parentId |-> devices[d].parentId,
                    type |-> type, severity |-> severity,
                    batteryLevel |-> NoLevel,
                    pushSent |-> FALSE, emailSent |-> FALSE]))
            /\ resp' = Emitting(Answer("alert", 201, d, Len(alerts) + 1,
                                       Dispatches(severity), <<>>),
                                Event("new-alert", devices[d].parentId,
                                      Len(alerts) + 1, FALSE))
       ELSE /\ resp' = Answer("alert", 404, d, 0, <<>>, <<>>)
            /\ UNCHANGED alerts
    /\ UNCHANGED <<now, commands, nextId, devices, maxBackoff, sweep, hb, calls, saves>>

----------------------------------------------------------------------------
(* The offline-devices cron job, one step per database round trip *)

\* Device.find({isOnline: true, lastHeartbeat: {$lt: cutoffTime}}); a
\* document without lastHeartbeat matches no $lt
OfflineFilter(dev, t) ==
    /\ dev.isOnline
    /\ dev.lastHeartbeat # NoDate
    /\ dev.lastHeartbeat < t - OfflineThresholdSec

SweepFind(k) ==
    /\ sweep[k].pc = "idle"
    /\ LET found == {d \in DOMAIN devices : OfflineFilter(devices[d], now)} IN
       \E s \in Orderings(found) :
           sweep' = [sweep EXCEPT ![k] =
               [pc |-> IF s = <<>> THEN "idle" ELSE "save",
                todo |-> s,
                seen |-> [i \in 1..Len(s) |-> devices[s[i]].lastHeartbeat]]]
    /\ UNCHANGED <<now, commands, nextId, devices, alerts, resp, maxBackoff, hb, calls, saves>>

\* variant: save() writes the whole document the job loaded
SweepWriteWhole(stored, seen) ==
    [stored EXCEPT !.isOnline = FALSE, !.lastHeartbeat = seen]

\* what save() writes after device.isOnline = false: the one modified path
SweepWrite(stored, seen) == [stored EXCEPT !.isOnline = FALSE]

\* device.isOnline = false; await device.save()
SweepSave(k) ==
    /\ sweep[k].pc = "save"
    /\ devices' = [devices EXCEPT ![Head(sweep[k].todo)] =
                      SweepWrite(@, Head(sweep[k].seen))]
    /\ sweep' = [sweep EXCEPT ![k].pc = "alert"]
    /\ saves' = Append(saves,
           [deviceId |-> Head(sweep[k].todo), seen |-> Head(sweep[k].seen),
            wasOnline |-> devices[Head(sweep[k].todo)].isOnline])
    /\ UNCHANGED <<now, commands, nextId, alerts, resp, maxBackoff, hb, calls>>

\* await Alert.create({type: 'device_offline', ...}), then the next device;
\* the alert schema has no data.lastHeartbeat and no data.offlineSince, so
\* the stored document holds neither
SweepAlert(k) ==
    /\ sweep[k].pc = "alert"
    /\ LET d == Head(sweep[k].todo) IN
       alerts' = Append(alerts,
           [deviceId |-> d, parentId |-> devices[d].parentId,
            type |-> "device_offline", severity |-> "medium",
            batteryLevel |-> NoLevel,
            pushSent |-> FALSE, emailSent |-> FALSE])
    /\ sweep' = [sweep EXCEPT ![k] =
           IF Len(@.todo) = 1 THEN NoSweep
           ELSE [pc |-> "save", todo |-> Tail(@.todo), seen |-> Tail(@.seen)]]
    /\ UNCHANGED <<now, commands, nextId, devices, resp, maxBackoff, hb, calls, saves>>

----------------------------------------------------------------------------
(* Spec: the whole command protocol on one command document, with the     *)
(* clock.                                                                  *)

Next ==
    \/ \E d \in TickSteps : Tick(d)
    \/ \E id \in CommandIds : TTLDelete(id)
    \/ /\ nextId <= MaxCommands
       /\ \E d \in DeviceIds, p \in ParentIds, q \in Priorities :
              SendCommand(d, p, "lock_device", "data1", q)
    \/ \E d \in DeviceIds : GetPendingCommands(d)
    \/ \E id \in CommandIds : AcknowledgeCommand(id)
    \/ \E id \in CommandIds, ok \in BOOLEAN : ReportCommandResult(id, ok)
    \/ \E id \in CommandIds, p \in ParentIds : CancelCommand(id, p)
    \/ /\ nextId <= MaxCommands
       /\ \E id \in CommandIds, p \in ParentIds : RetryCommand(id, p)

Spec == Init /\ [][Next]_vars

----------------------------------------------------------------------------
(* SpecQueue: several commands queued for the devices, pulled and          *)
(* cancelled, with the clock; no result reports.                           *)

NextQueue ==
    \/ \E d \in TickSteps : Tick(d)
    \/ \E id \in QueueIds : TTLDelete(id)
    \/ /\ nextId <= MaxQueue
       /\ \E d \in DeviceIds, p \in ParentIds, q \in Priorities :
              SendCommand(d, p, "lock_device", "data1", q)
    \/ \E d \in DeviceIds : GetPendingCommands(d)
    \/ \E id \in QueueIds, p \in ParentIds : CancelCommand(id, p)

SpecQueue == Init /\ [][NextQueue]_vars

----------------------------------------------------------------------------
(* SpecExpiry: one command document through its whole life while days      *)
(* pass, with the pulls and the heartbeats that list pending commands.     *)

\* the devices that send heartbeats in this specification
ExpiryHeartbeats == {"d1"}

NextExpiry ==
    \/ Tick(DaySec)
    \/ \E id \in CommandIds : TTLDelete(id)
    \/ /\ nextId <= MaxCommands
       /\ \E d \in DeviceIds, p \in ParentIds, q \in Priorities :
              SendCommand(d, p, "lock_device", "data1", q)
    \/ \E d \in DeviceIds : GetPendingCommands(d)
    \/ \E id \in CommandIds : AcknowledgeCommand(id)
    \/ \E id \in CommandIds, ok \in BOOLEAN : ReportCommandResult(id, ok)
    \/ \E id \in CommandIds, p \in ParentIds : CancelCommand(id, p)
    \/ \E d \in ExpiryHeartbeats : HbFindOne(d, 50, TRUE, FALSE)
    \/ \E d \in ExpiryHeartbeats : HbSave(d)
    \/ \E d \in ExpiryHeartbeats : HbRespond(d)

SpecExpiry == Init /\ [][NextExpiry]_vars

----------------------------------------------------------------------------
(* SpecPresence: heartbeats and the offline-devices job, interleaved at    *)
(* their database round trips.                                             *)

UnknownDeviceIds == {"d9"}

NextPresence ==
    \/ Tick(DaySec)
    \/ \E d \in DeviceIds, b \in PresenceLevels, o \in BOOLEAN : HbFindOne(d, b, FALSE, o)
    \/ \E d \in UnknownDeviceIds : HbNotRegistered(d)
    \/ \E d \in DeviceIds : HbSave(d)
    \/ \E d \in DeviceIds : HbOther(d)
    \/ /\ Len(alerts) < MaxAlerts
       /\ \E d \in DeviceIds : HbAlert(d)
    \/ \E d \in DeviceIds : HbRespond(d)
    \/ \E k \in SweepIds : SweepFind(k)
    \/ \E k \in SweepIds : SweepSave(k)
    \/ /\ Len(alerts) < MaxAlerts
       /\ \E k \in SweepIds : SweepAlert(k)

SpecPresence == Init /\ [][NextPresence]_vars

----------------------------------------------------------------------------
(* SpecRace: one command document with pulls and result reports            *)
(* interleaved at their database round trips, acknowledgements and         *)
(* cancellations; the clock stands still.                                  *)

NextRace ==
    \/ /\ nextId <= MaxCommands
       /\ \E d \in DeviceIds, p \in ParentIds :
              SendCommand(d, p, "lock_device", "data1", "normal")
    \/ \E k \in CallIds, d \in DeviceIds : PullFind(k, d)
    \/ \E k \in CallIds : PullUpdate(k)
    \/ \E k \in CallIds, id \in CommandIds, ok \in BOOLEAN : ReportFind(k, id, ok)
    \/ \E k \in CallIds : ReportSave(k)
    \/ \E id \in CommandIds : AcknowledgeCommand(id)
    \/ \E id \in CommandIds, p \in ParentIds : CancelCommand(id, p)

SpecRace == Init /\ [][NextRace]_vars

----------------------------------------------------------------------------
(* SpecSweeps: runs of the offline-devices job that overlap, with the      *)
(* heartbeats that bring the devices online.                               *)

NextSweeps ==
    \/ Tick(DaySec)
    \/ \E d \in DeviceIds : HbFindOne(d, 50, FALSE, FALSE)
    \/ \E d \in DeviceIds : HbSave(d)
    \/ \E d \in DeviceIds : HbRespond(d)
    \/ \E k \in SweepSlots : SweepFind(k)
    \/ \E k \in SweepSlots : SweepSave(k)
    \/ /\ Len(alerts) < MaxAlerts
       /\ \E k \in SweepSlots : SweepAlert(k)

SpecSweeps == Init /\ [][NextSweeps]_vars

----------------------------------------------------------------------------
(* SpecRetry: a command and its retried copy, each handler as one step;    *)
(* the clock stands still.                                                 *)

NextRetry ==
    \/ /\ nextId <= MaxCommands
       /\ \E d \in DeviceIds, p \in ParentIds, ty \in Types, da \in Payloads,
             q \in Priorities : SendCommand(d, p, ty, da, q)
    \/ \E d \in DeviceIds : GetPendingCommands(d)
    \/ \E id \in RetryIds : AcknowledgeCommand(id)
    \/ \E id \in RetryIds, ok \in BOOLEAN : ReportCommandResult(id, ok)
    \/ \E id \in RetryIds, p \in ParentIds : CancelCommand(id, p)
    \/ /\ nextId <= MaxCommands + MaxRetried
       /\ \E id \in RetryIds, p \in ParentIds : RetryCommand(id, p)

SpecRetry == Init /\ [][NextRetry]_vars

----------------------------------------------------------------------------
(* SpecDevices: the parent's device operations (settings, block, delete,   *)
(* issue) with a device's heartbeats and the offline-devices job, while    *)
(* days pass.                                                              *)

NextDevices ==
    \/ Tick(DaySec)
    \/ \E d \in ExpiryHeartbeats : HbFindOne(d, 50, TRUE, FALSE)
    \/ \E d \in ExpiryHeartbeats : HbSave(d)
    \/ \E d \in ExpiryHeartbeats : HbRespond(d)
    \/ \E k \in SweepIds : SweepFind(k)
    \/ \E k \in SweepIds : SweepSave(k)
    \/ /\ Len(alerts) < MaxAlerts
       /\ \E k \in SweepIds : SweepAlert(k)
    \/ /\ nextId <= MaxCommands
       /\ \E d \in DeviceIds \cup UnknownDeviceIds, p \in ParentIds :
              SendCommand(d, p, "show_message", "data1", "normal")
    \/ /\ nextId <= MaxCommands
       /\ \E d \in DeviceIds, p \in ParentIds, m \in SettingLevels \cup {NoSetting} :
              UpdateDeviceSettings(d, p, m)
    \/ /\ nextId <= MaxCommands
       /\ \E d \in DeviceIds, p \in ParentIds, b \in BOOLEAN :
              ToggleDeviceBlock(d, p, b)
    \/ \E d \in DeviceIds \cup UnknownDeviceIds, p \in ParentIds : DeleteDevice(d, p)

SpecDevices == Init /\ [][NextDevices]_vars

----------------------------------------------------------------------------
(* SpecCreate: command documents created with and without a deadline of    *)
(* their own, at several times of the clock.                               *)

\* the deadlines a document is created with; NoDate: none
CreateDeadlines == {NoDate, 5, 2 * DaySec}

NextCreate ==
    \/ \E d \in TickSteps : Tick(d)
    \/ \E id \in CommandIds : TTLDelete(id)
    \/ /\ nextId <= MaxCommands
       /\ \E d \in DeviceIds, ty \in Types, q \in Priorities, e \in CreateDeadlines :
              CreateCommand(d, OwnerOf[d], ty, "data1", q, e)

SpecCreate == Init /\ [][NextCreate]_vars

----------------------------------------------------------------------------
(* SpecBattery: the heartbeats of one device around the battery            *)
(* thresholds, with the parent changing the threshold.                     *)

BatteryLevels == {10, 11, 20, 21}

NextBattery ==
    \/ \E d \in ExpiryHeartbeats, b \in BatteryLevels, c \in BOOLEAN :
           HbFindOne(d, b, c, FALSE)
    \/ \E d \in ExpiryHeartbeats : HbSave(d)
    \/ /\ Len(alerts) < MaxAlerts
       /\ \E d \in ExpiryHeartbeats : HbAlert(d)
    \/ \E d \in ExpiryHeartbeats : HbRespond(d)
    \/ /\ nextId <= MaxCommands
       /\ \E d \in ExpiryHeartbeats, m \in SettingLevels :
              UpdateDeviceSettings(d, OwnerOf[d], m)

SpecBattery == Init /\ [][NextBattery]_vars

----------------------------------------------------------------------------
(* SpecFailures: heartbeats and result reports whose alert creation or     *)
(* event publication fails.                                                *)

FailureLevels == {5, 50}

NextFailures ==
    \/ \E d \in ExpiryHeartbeats, b \in FailureLevels : HbFindOne(d, b, FALSE, FALSE)
    \/ \E d \in ExpiryHeartbeats : HbSave(d)
    \/ /\ Len(alerts) < MaxAlerts
       /\ \E d \in ExpiryHeartbeats : HbAlert(d)
    \/ \E d \in ExpiryHeartbeats : HbAlertFails(d)
    \/ \E d \in ExpiryHeartbeats : HbRespond(d)
    \/ /\ nextId <= MaxCommands
       /\ \E d \in DeviceIds, q \in Priorities :
              SendCommand(d, OwnerOf[d], "lock_device", "data1", q)
    \/ \E d \in DeviceIds : GetPendingCommands(d)
    \/ \E id \in CommandIds, ok \in BOOLEAN : ReportCommandResult(id, ok)
    \/ \E id \in CommandIds, ok \in BOOLEAN : ReportPublishFails(id, ok)

SpecFailures == Init /\ [][NextFailures]_vars

----------------------------------------------------------------------------
(* SpecAlerts: alerts reported by the devices, with the low-battery alerts *)
(* of a device's heartbeats.                                               *)

NextAlerts ==
    \/ /\ Len(alerts) < MaxAlerts
       /\ \E d \in DeviceIds, ty \in ReportedTypes, sev \in Severities :
              CreateAlert(d, ty, sev)
    \/ \E d \in UnknownDeviceIds, ty \in ReportedTypes, sev \in Severities :
           CreateAlert(d, ty, sev)
    \/ \E d \in ExpiryHeartbeats, b \in FailureLevels : HbFindOne(d, b, FALSE, FALSE)
    \/ \E d \in ExpiryHeartbeats : HbSave(d)
    \/ /\ Len(alerts) < MaxAlerts
       /\ \E d \in ExpiryHeartbeats : HbAlert(d)
    \/ \E d \in ExpiryHeartbeats : HbRespond(d)

SpecAlerts == Init /\ [][NextAlerts]_vars

----------------------------------------------------------------------------
(* Properties *)

Known(id) == id \in DOMAIN commands
Terminal == {"completed", "failed", "expired"}

\* the rank of the priorities in the delivery contract
Rank == [critical |-> 4, high |-> 3, normal |-> 2, low |-> 1]

\* C1: a pull returns the eligible commands by priority descending in the
\* rank critical > high > normal > low, then createdAt ascending.
C1_PullOrderedByRank ==
    [][\A d \in DeviceIds : GetPendingCommands(d) =>
        \A i, j \in 1..Len(resp'.list) : i < j =>
            LET a == commands[resp'.list[i]]
                b == commands[resp'.list[j]]
            IN  \/ Rank[a.priority] > Rank[b.priority]
                \/ /\ Rank[a.priority] = Rank[b.priority]
                   /\ a.createdAt <= b.createdAt]_vars

\* C2: neither a pull nor a heartbeat response contains a command whose
\* expiresAt is at or before the time of the response, whatever its status.
C2_NeverReturnsExpired ==
    [][\A d \in DeviceIds : (GetPendingCommands(d) \/ HbRespond(d)) =>
        \A i \in 1..Len(resp'.list) :
            commands[resp'.list[i]].expiresAt > now]_vars

C2_Witness ==
    /\ resp.op = "heartbeat" /\ resp.code = 200
    /\ \E id \in DOMAIN commands :
           /\ commands[id].deviceId = resp.dev
           /\ commands[id].status \in {"pending", "sent"}
           /\ commands[id].expiresAt <= now
           /\ \A i \in 1..Len(resp.list) : resp.list[i] # id

\* C3: a pull returns no command whose nextRetryAt is set and still in the
\* future.
C3_PullHonoursNextRetryAt ==
    [][\A d \in DeviceIds : GetPendingCommands(d) =>
        \A i \in 1..Len(resp'.list) :
            LET c == commands[resp'.list[i]]
            IN  c.nextRetryAt = NoDate \/ now >= c.nextRetryAt]_vars

\* C4: a command whose retryCount is 5 is never pending, and no step, of
\* whatever interleaving of the handlers, gives such a command the status
\* pending.
C4_RetryCeilingAbsolute ==
    [][\A id \in DOMAIN commands' :
        (\/ commands'[id].retryCount = 5
         \/ Known(id) /\ commands[id].retryCount = 5)
        => commands'[id].status # "pending"]_vars

\* C5: for a fresh command that was pulled and acknowledged, a failure
\* report leaves status pending, retryCount 1 and nextRetryAt two seconds
\* after the report.
C5_FirstFailure ==
    [][\A id \in DOMAIN commands :
        (/\ resp.op = "ack" /\ resp.id = id /\ resp.code = 200
         /\ resp.read = <<"sent">>
         /\ commands[id].retryCount = 0
         /\ ReportCommandResult(id, FALSE))
        => /\ commands'[id].status = "pending"
           /\ commands'[id].retryCount = 1
           /\ commands'[id].nextRetryAt = now + 2
           /\ resp'.code = 200]_vars

C5_Witness ==
    \E id \in DOMAIN commands :
        /\ resp.op = "report" /\ resp.id = id /\ resp.code = 200
        /\ resp.read = <<"delivered">>
        /\ commands[id].status = "pending"
        /\ commands[id].retryCount = 1
        /\ commands[id].nextRetryAt = now + 2

C7_Original ==
    \A id \in DOMAIN commands :
        commands[id].retryCount = 5 => maxBackoff[id] = 32

\* C7 as amended: the n-th failure (n = 1..4) schedules nextRetryAt n-th
\* power of two seconds after the report, the fifth schedules nothing, and
\* the largest backoff of a command that failed until terminal is 16 seconds.
C7_BackoffSchedule ==
    [][\A id \in DOMAIN commands : ReportCommandResult(id, FALSE) =>
        /\ commands'[id].status = "pending" =>
              /\ commands'[id].retryCount \in 1..4
              /\ commands'[id].nextRetryAt =
                     now + <<2, 4, 8, 16>>[commands'[id].retryCount]
        /\ commands'[id].status # "pending" =>
              commands'[id].nextRetryAt = commands[id].nextRetryAt
        /\ maxBackoff'[id] <= 16
        /\ commands'[id].retryCount = 5 => maxBackoff'[id] = 16]_vars

C7_Witness ==
    \E id \in DOMAIN commands :
        /\ resp.op = "report" /\ resp.id = id /\ resp.code = 200
        /\ commands[id].retryCount = 5
        /\ commands[id].status = "failed"
        /\ maxBackoff[id] = 16

\* C8: a pull that follows a pull for the same device, with no other handler
\* in between and the one returned command still unexpired, returns that
\* same command.
C8_PullAgain ==
    [][\A d \in DeviceIds :
        (/\ resp.op = "pull" /\ resp.dev = d /\ Len(resp.list) = 1
         /\ Known(resp.list[1])
         /\ commands[resp.list[1]].expiresAt > now
         /\ GetPendingCommands(d))
        => resp'.list = resp.list]_vars

C8_Witness ==
    /\ resp.op = "pull" /\ Len(resp.list) = 1
    /\ resp.read = <<"sent">>
    /\ Known(resp.list[1])
    /\ commands[resp.list[1]].status = "sent"

\* C9: acknowledging a command that is delivered, completed, failed or
\* expired answers with an error and leaves the command as it was.
C9_AckRejectedWhenSettled ==
    [][\A id \in DOMAIN commands :
        (/\ commands[id].status \in Terminal \cup {"delivered"}
         /\ AcknowledgeCommand(id))
        => /\ resp'.code # 200
           /\ commands' = commands]_vars

\* C10: the offline-devices job does not flip a device offline when a
\* heartbeat handled since the job read the device has stored a fresher
\* lastHeartbeat than the one the job read.
C10_FresherHeartbeatWins ==
    [][\A k \in SweepIds :
        (/\ SweepSave(k)
         /\ hb[Head(sweep[k].todo)].pc = "idle"
         /\ devices[Head(sweep[k].todo)].lastHeartbeat > Head(sweep[k].seen))
        => devices'[Head(sweep[k].todo)].isOnline]_vars

\* the device_offline alerts stored for device d
OfflineAlerts(d) ==
    Cardinality({i \in 1..Len(alerts) :
        alerts[i].type = "device_offline" /\ alerts[i].deviceId = d})

\* the online-to-offline flips of device d so far
Flips(d) ==
    Cardinality({i \in 1..Len(saves) :
        saves[i].deviceId = d /\ saves[i].wasOnline})

\* C11: whenever no run of the offline-devices job is in flight, each device
\* has as many device_offline alerts as it had online-to-offline flips: one
\* alert per flip and none from a run that finds the device already offline.
C11_OneAlertPerFlip ==
    (\A k \in SweepSlots : sweep[k].pc = "idle")
    => \A d \in DeviceIds : OfflineAlerts(d) = Flips(d)

\* C12: no run of the offline-devices job saves a device that a run has
\* already saved for the same silence period, that is with the same
\* lastHeartbeat read.
C12_NoDoubleProcessing ==
    [][\A k \in SweepSlots : SweepSave(k) =>
        ~\E i \in 1..Len(saves) :
            /\ saves[i].deviceId = Head(sweep[k].todo)
            /\ saves[i].seen = Head(sweep[k].seen)]_vars

\* C13: a pull never hands out a command that it read as pending and that
\* another pull has handed out (moved to sent) since that read.
C13_NoDoubleAssign ==
    [][\A k \in CallIds : PullUpdate(k) =>
        \A i \in 1..Len(calls[k].list) :
            (/\ calls[k].read[i] = "pending"
             /\ Known(calls[k].list[i]))
            => commands[calls[k].list[i]].status # "sent"]_vars

\* C14: a failure report that is accepted on a command whose stored
\* retryCount is below the ceiling leaves the stored retryCount one higher,
\* as it would if the reports and acknowledgements ran one at a time.
C14_ReportsSerializable ==
    [][\A k \in CallIds :
        (/\ ReportSave(k)
         /\ ~calls[k].success
         /\ Known(calls[k].id)
         /\ commands[calls[k].id].retryCount < MaxRetries
         /\ resp'.code = 200)
        => commands'[calls[k].id].retryCount
               = commands[calls[k].id].retryCount + 1]_vars

\* C15: cancel answers ok and sets the status expired when the command
\* exists, belongs to the caller and is pending or sent; otherwise it answers
\* with an error and changes no command.
C15_CancelGuarded ==
    [][\A id \in CommandIds, p \in ParentIds : CancelCommand(id, p) =>
        IF /\ Known(id)
           /\ commands[id].parentId = p
           /\ commands[id].status \in {"pending", "sent"}
        THEN /\ resp'.code = 200
             /\ commands' = [commands EXCEPT ![id].status = "expired"]
        ELSE /\ resp'.code # 200
             /\ commands' = commands]_vars

C15_Witness ==
    /\ resp.op = "cancel" /\ resp.code = 404
    /\ Known(resp.id)
    /\ commands[resp.id].status = "delivered"

\* C16: a pull's write leaves a cancelled command expired and its response
\* does not contain it.
C16_CancelSticks ==
    [][\A k \in CallIds : PullUpdate(k) =>
        \A id \in DOMAIN commands :
            commands[id].status = "expired"
            => /\ commands'[id].status = "expired"
               /\ id \notin ListIds(calls[k])]_vars

\* C17: a result report on a cancelled command answers ok and leaves the
\* command as it was.
C17_ReportOnCancelledIgnored ==
    [][\A id \in DOMAIN commands, ok \in BOOLEAN :
        (/\ commands[id].status = "expired"
         /\ ReportCommandResult(id, ok))
        => /\ resp'.code = 200
           /\ commands'[id] = commands[id]]_vars

\* C18: once a command is completed, expired, or failed with its retries
\* exhausted, no pull, acknowledgement, result report or cancel changes its
\* status.
C18_TerminalAbsorbing ==
    [][\A id \in DOMAIN commands :
        (/\ \/ commands[id].status \in {"completed", "expired"}
            \/ /\ commands[id].status = "failed"
               /\ RetryExhausted(commands[id].retryCount)
         /\ id \in DOMAIN commands')
        => commands'[id].status = commands[id].status]_vars

\* C19: retry by the owner of a failed command answers ok and adds one
\* command with a new id, status pending, retryCount 0 and the type, payload,
\* priority, deviceId and parentId of the original; every command that
\* existed, the original included, is left as it was.
C19_RetryClones ==
    [][\A id \in DOMAIN commands, p \in ParentIds :
        (/\ commands[id].status = "failed"
         /\ commands[id].parentId = p
         /\ RetryCommand(id, p))
        => LET new == resp'.id IN
           /\ resp'.code = 200
           /\ new \notin DOMAIN commands
           /\ DOMAIN commands' = DOMAIN commands \cup {new}
           /\ commands'[new].status = "pending"
           /\ commands'[new].retryCount = 0
           /\ commands'[new].type = commands[id].type
           /\ commands'[new].command = commands[id].command
           /\ commands'[new].priority = commands[id].priority
           /\ commands'[new].deviceId = commands[id].deviceId
           /\ commands'[new].parentId = commands[id].parentId
           /\ \A i \in DOMAIN commands : commands'[i] = commands[i]]_vars

C19_Witness ==
    /\ resp.op = "retry" /\ resp.code = 200
    /\ Known(resp.id)
    /\ commands[resp.id].status = "pending"
    /\ commands[resp.id].priority = "critical"
    /\ commands[resp.id].type = "show_message"
    /\ commands[resp.id].command = "data2"
    /\ \E id \in DOMAIN commands :
           /\ id # resp.id
           /\ commands[id].status = "failed"
           /\ commands[id].retryCount = 5
           /\ commands[id].priority = "critical"

\* C20: retry is accepted only when the command exists, belongs to the
\* caller and has status failed; otherwise it answers 404 and no command is
\* created or changed.
C20_RetryGuarded ==
    [][\A id \in RetryIds, p \in ParentIds : RetryCommand(id, p) =>
        IF /\ Known(id)
           /\ commands[id].parentId = p
           /\ commands[id].status = "failed"
        THEN resp'.code = 200
        ELSE /\ resp'.code = 404
             /\ commands' = commands
             /\ nextId' = nextId]_vars

C20_Witness ==
    /\ resp.op = "retry" /\ resp.code = 404
    /\ Known(resp.id)
    /\ commands[resp.id].status = "failed"

\* C21: issuing a command creates exactly one new command, pending with
\* retryCount 0, when the device exists, belongs to the issuing parent and is
\* not soft-deleted; otherwise it answers with an error, no command is
\* created or changed and no event is published.
C21_IssueGuarded ==
    [][\A d \in DeviceIds \cup UnknownDeviceIds, p \in ParentIds :
        SendCommand(d, p, "show_message", "data1", "normal") =>
            IF /\ d \in DOMAIN devices
               /\ devices[d].parentId = p
               /\ devices[d].status # "deleted"
            THEN LET new == resp'.id IN
                 /\ resp'.code = 201
                 /\ new \notin DOMAIN commands
                 /\ DOMAIN commands' = DOMAIN commands \cup {new}
                 /\ commands'[new].status = "pending"
                 /\ commands'[new].retryCount = 0
                 /\ commands'[new].deviceId = d
                 /\ commands'[new].parentId = p
                 /\ \A i \in DOMAIN commands : commands'[i] = commands[i]
            ELSE /\ resp'.code = 404
                 /\ commands' = commands
                 /\ nextId' = nextId
                 /\ resp'.event = NoEvent]_vars

C21_Witness ==
    /\ resp.op = "issue" /\ resp.code = 404
    /\ resp.dev \in DOMAIN devices
    /\ devices[resp.dev].status = "deleted"
    /\ devices[resp.dev].lastHeartbeat # NoDate
    /\ commands = <<>>

\* C22: the status of every command is one of the seven statuses of the
\* schema, and every stored command has a deadline.
C22_StatusAndDeadline ==
    \A id \in DOMAIN commands :
        /\ commands[id].status \in
               {"pending", "sent", "delivered", "executing", "completed",
                "failed", "expired"}
        /\ commands[id].expiresAt # NoDate

C22_Witness ==
    \E id \in DOMAIN commands :
        /\ commands[id].status = "failed"
        /\ commands[id].retryCount = 5
        /\ commands[id].createdAt > 0
        /\ commands[id].expiresAt = commands[id].createdAt + 86400

\* C23: a command created without a deadline expires 168 hours after its
\* creation if its priority is critical and 24 hours after it otherwise; a
\* deadline supplied at creation is kept.
C23_DefaultDeadline ==
    [][\A d \in DeviceIds, ty \in Types, q \in Priorities, e \in CreateDeadlines :
        CreateCommand(d, OwnerOf[d], ty, "data1", q, e) =>
            commands'[nextId].expiresAt =
                IF e # NoDate THEN e
                ELSE IF q = "critical" THEN now + 168 * 3600
                ELSE now + 24 * 3600]_vars

C23_Witness ==
    \E id \in DOMAIN commands :
        /\ commands[id].priority = "critical"
        /\ commands[id].createdAt = 1
        /\ commands[id].expiresAt = 1 + 604800

\* C24: the heartbeat of a registered device leaves the device with
\* lastHeartbeat at the current time, online, and the battery level and
\* charging flag the heartbeat reports; the heartbeat of an unregistered
\* device id answers 404 and changes no device.
C24_HeartbeatRecorded ==
    [][/\ \A d \in DeviceIds : HbSave(d) =>
              /\ devices'[d].lastHeartbeat = now
              /\ devices'[d].isOnline = TRUE
              /\ devices'[d].batteryLevel = hb[d].batteryLevel
              /\ devices'[d].isCharging = hb[d].isCharging
       /\ \A d \in UnknownDeviceIds : HbNotRegistered(d) =>
              /\ resp'.code = 404
              /\ devices' = devices]_vars

\* C25: a heartbeat raises a low_battery alert if and only if its battery
\* level is at most the device's maxBatteryAlert setting and the device is
\* not charging; the alert's severity is critical for a level of at most 10
\* and medium otherwise; every qualifying heartbeat raises its own alert.
C25_LowBatteryAlert ==
    [][/\ \A d \in ExpiryHeartbeats :
              /\ HbSave(d) =>
                     (hb'[d].pc = "alert" <=>
                          /\ hb[d].batteryLevel <= hb[d].doc.maxBatteryAlert
                          /\ ~hb[d].isCharging)
              /\ HbAlert(d) =>
                     /\ Len(alerts') = Len(alerts) + 1
                     /\ alerts'[Len(alerts')].type = "low_battery"
                     /\ alerts'[Len(alerts')].deviceId = d
                     /\ alerts'[Len(alerts')].batteryLevel = hb[d].batteryLevel
                     /\ alerts'[Len(alerts')].severity =
                            IF hb[d].batteryLevel <= 10 THEN "critical"
                            ELSE "medium"
              /\ (hb[d].pc = "save" /\ hb'[d].pc = "find") =>
                     alerts' = alerts
       /\ alerts' # alerts => \E d \in ExpiryHeartbeats : HbAlert(d)]_vars

C25_Witness ==
    /\ Len(alerts) = 2
    /\ \A i \in 1..2 : alerts[i].type = "low_battery" /\ alerts[i].deviceId = "d1"
    /\ alerts[1].batteryLevel = 20 /\ alerts[1].severity = "medium"
    /\ alerts[2].batteryLevel = 10 /\ alerts[2].severity = "critical"
    /\ devices["d1"].maxBatteryAlert = 20

\* C26: when the creation of the alert fails during a heartbeat, or the
\* publication of the event fails during a result report, the operation
\* still answers with success and the change it has stored is kept.
C26_FailureIsolation ==
    [][/\ \A d \in ExpiryHeartbeats : HbAlertFails(d) =>
              /\ resp'.code = 200
              /\ devices' = devices
       /\ \A id \in CommandIds, ok \in BOOLEAN : ReportPublishFails(id, ok) =>
              /\ resp'.code = 200
              /\ commands'[id].status # commands[id].status]_vars

\* C27: a pull for device d sets every command it returns to sent and does
\* nothing else: alerts and devices are untouched, the commands it does not
\* return (those of other devices among them) are untouched, and the
\* returned commands keep every field but the status.
C27_PullFrame ==
    [][\A d \in DeviceIds : GetPendingCommands(d) =>
        LET returned == {resp'.list[i] : i \in 1..Len(resp'.list)} IN
        /\ alerts' = alerts
        /\ devices' = devices
        /\ DOMAIN commands' = DOMAIN commands
        /\ \A id \in DOMAIN commands :
               IF id \in returned
               THEN /\ commands[id].deviceId = d
                    /\ commands'[id].status = "sent"
                    /\ commands'[id] = [commands[id] EXCEPT !.status = "sent"]
               ELSE commands'[id] = commands[id]]_vars

C27_Witness ==
    /\ resp.op = "pull"
    /\ Len(resp.list) = 1
    /\ commands[resp.list[1]].status = "sent"
    /\ commands[resp.list[1]].priority = "critical"
    /\ \E id \in DOMAIN commands :
           /\ commands[id].deviceId # resp.dev
           /\ commands[id].status = "pending"

\* C28: an acknowledgement or a result report for a command id that does
\* not exist answers 404, changes no command and publishes no event.
C28_UnknownId ==
    [][\A id \in CommandIds : id \notin DOMAIN commands =>
        /\ AcknowledgeCommand(id) =>
               /\ resp'.code = 404
               /\ commands' = commands
               /\ resp'.event = NoEvent
        /\ \A ok \in BOOLEAN : ReportCommandResult(id, ok) =>
               /\ resp'.code = 404
               /\ commands' = commands
               /\ resp'.event = NoEvent]_vars

C28_Witness ==
    /\ resp.op \in {"ack", "report"}
    /\ resp.code = 404
    /\ resp.id \notin DOMAIN commands
    /\ resp.event = NoEvent
    /\ \E id \in DOMAIN commands : commands[id].status = "sent"

\* C29: once a command is completed, no pull returns it and no step of a
\* pull or of a result report takes it out of completed, however the report
\* and a pull that has already read its ids interleave.
C29_CompletedStays ==
    [][/\ \A k \in CallIds : PullUpdate(k) =>
              \A id \in DOMAIN commands :
                  commands[id].status = "completed" =>
                      /\ commands'[id].status = "completed"
                      /\ \A i \in 1..Len(resp'.list) : resp'.list[i] # id
       /\ \A k \in CallIds : ReportSave(k) =>
              \A id \in DOMAIN commands :
                  commands[id].status = "completed" =>
                      commands'[id].status = "completed"]_vars

\* C30: lastHeartbeat, batteryLevel and isCharging of a device change only
\* in a step of a heartbeat; the offline-devices job, the settings update,
\* block/unblock and delete leave them as they are, and the job's save
\* changes nothing of the device but isOnline.
C30_HeartbeatFieldsFramed ==
    [][/\ (\E d \in DeviceIds :
               \/ devices'[d].lastHeartbeat # devices[d].lastHeartbeat
               \/ devices'[d].batteryLevel # devices[d].batteryLevel
               \/ devices'[d].isCharging # devices[d].isCharging)
          => \E d \in DeviceIds : HbSave(d) \/ HbOther(d)
       /\ \A k \in SweepIds : SweepSave(k) =>
              \A d \in DeviceIds :
                  /\ devices'[d].isOnline # devices[d].isOnline
                         => (d = Head(sweep[k].todo) /\ ~devices'[d].isOnline)
                  /\ [devices'[d] EXCEPT !.isOnline = devices[d].isOnline]
                         = devices[d]]_vars

C30_Witness ==
    \E i \in 1..Len(saves) :
        LET d == saves[i].deviceId IN
        /\ saves[i].seen < devices[d].lastHeartbeat
        /\ devices[d].lastHeartbeat = now
        /\ ~devices[d].isOnline
        /\ devices[d].isCharging
        /\ devices[d].isBlocked
        /\ devices[d].status = "deleted"

\* requiresAction: pendingCommands.length > 0
RequiresAction(a) == Len(a.list) > 0

\* C31: the heartbeat answers requiresAction exactly when the device has a
\* command that is pending or sent and whose deadline lies in the future,
\* and it lists exactly those commands; no step of the heartbeat changes a
\* command.
C31_HeartbeatLists ==
    [][\A d \in ExpiryHeartbeats :
        /\ HbRespond(d) =>
               LET eligible == {id \in DOMAIN commands :
                                   /\ commands[id].deviceId = d
                                   /\ commands[id].status \in {"pending", "sent"}
                                   /\ commands[id].expiresAt > now}
               IN  /\ resp'.code = 200
                   /\ RequiresAction(resp') <=> eligible # {}
                   /\ {resp'.list[i] : i \in 1..Len(resp'.list)} = eligible
                   /\ Len(resp'.list) = Cardinality(eligible)
        /\ (HbFindOne(d, 50, TRUE, FALSE) \/ HbSave(d) \/ HbRespond(d)) =>
               commands' = commands]_vars

C31_Witness ==
    /\ resp.op = "heartbeat" /\ resp.code = 200
    /\ RequiresAction(resp)
    /\ resp.read = <<"sent">>
    /\ commands[resp.list[1]].status = "sent"
    /\ commands[resp.list[1]].expiresAt > now
    /\ now > 0

\* C32: once a device is soft-deleted, no step adds a command for it.
C32_NoCommandForDeleted ==
    [][\A d \in DeviceIds : devices[d].status = "deleted" =>
        \A id \in DOMAIN commands' \ DOMAIN commands :
            commands'[id].deviceId # d]_vars

\* C33: a settings update for an active device of the caller stores the
\* settings and adds exactly one command for the device, of type
\* update_settings, pending, with priority high; an update that is rejected
\* changes no device and no command.
C33_SettingsCommand ==
    [][\A d \in DeviceIds, p \in ParentIds, m \in SettingLevels \cup {NoSetting} :
        UpdateDeviceSettings(d, p, m) =>
            IF devices[d].parentId = p /\ devices[d].status = "active"
            THEN LET new == resp'.id IN
                 /\ resp'.code = 200
                 /\ new \notin DOMAIN commands
                 /\ DOMAIN commands' = DOMAIN commands \cup {new}
                 /\ commands'[new].type = "update_settings"
                 /\ commands'[new].status = "pending"
                 /\ commands'[new].priority = "high"
                 /\ commands'[new].deviceId = d
                 /\ commands'[new].parentId = p
                 /\ \A i \in DOMAIN commands : commands'[i] = commands[i]
                 /\ m # NoSetting => devices'[d].maxBatteryAlert = m
            ELSE /\ resp'.code = 404
                 /\ devices' = devices
                 /\ commands' = commands
                 /\ nextId' = nextId]_vars

C33_Witness ==
    /\ resp.op = "settings" /\ resp.code = 200
    /\ Known(resp.id)
    /\ commands[resp.id].type = "update_settings"
    /\ commands[resp.id].priority = "high"
    /\ commands[resp.id].status = "pending"
    /\ devices[resp.dev].maxBatteryAlert = 30
    /\ ~devices[resp.dev].isOnline
    /\ devices[resp.dev].lastHeartbeat # NoDate

\* C34: a result report that brings a command to completed or to the
\* terminal failed publishes a command-result event to the room of the
\* command's parent with the command's id and the reported success flag,
\* and an event is published only by a report whose change is stored.
C34_ResultEvent ==
    [][\A id \in DOMAIN commands, ok \in BOOLEAN : ReportCommandResult(id, ok) =>
        /\ (/\ commands'[id] # commands[id]
            /\ commands'[id].status \in {"completed", "failed"})
           => /\ resp'.event.name = "command-result"
              /\ resp'.event.room = commands[id].parentId
              /\ resp'.event.id = id
              /\ resp'.event.success = ok
        /\ resp'.event # NoEvent
           => /\ resp'.code = 200
              /\ IF ok THEN commands'[id].status = "completed"
                 ELSE commands'[id].retryCount = commands[id].retryCount + 1]_vars

C34_Witness ==
    /\ resp.op = "report" /\ resp.code = 200
    /\ resp.event.name = "command-result"
    /\ resp.event.room = "p2"
    /\ ~resp.event.success
    /\ Known(resp.event.id)
    /\ commands[resp.event.id].status = "failed"
    /\ commands[resp.event.id].retryCount = 5

\* C35: for an alert a device reports, a push is dispatched exactly when
\* the severity is high or critical and an email exactly when it is
\* critical, and the stored alert has pushSent (emailSent) true only if a
\* push (an email) was dispatched for it.
C35_FlagsAgree ==
    [][\A d \in DeviceIds, ty \in ReportedTypes, sev \in Severities :
        CreateAlert(d, ty, sev) =>
            LET sent == {resp'.list[i] : i \in 1..Len(resp'.list)}
                alert == alerts'[Len(alerts')]
            IN  /\ "push" \in sent <=> sev \in {"high", "critical"}
                /\ "email" \in sent <=> sev = "critical"
                /\ alert.pushSent => "push" \in sent
                /\ alert.emailSent => "email" \in sent]_vars

\* C36: an acknowledgement or a result report on a stored command whose
\* deadline has passed is rejected with an outcome that is neither success
\* nor 404, and leaves the command's status as it was.
C36_ExpiredRejected ==
    [][\A id \in DOMAIN commands : commands[id].expiresAt <= now =>
        /\ AcknowledgeCommand(id) =>
               /\ resp'.code \notin {200, 404}
               /\ commands'[id].status = commands[id].status
        /\ \A ok \in BOOLEAN : ReportCommandResult(id, ok) =>
               /\ resp'.code \notin {200, 404}
               /\ commands'[id].status = commands[id].status]_vars

\* C37: every command that is completed, and every command that is failed
\* for good, has an execution result recorded.
C37_ResultRecorded ==
    \A id \in DOMAIN commands :
        (\/ commands[id].status = "completed"
         \/ /\ commands[id].status = "failed"
            /\ commands[id].retryCount >= 5)
        => commands[id].hasResult

\* C38: the retryCount of every command is within 0..5 after every step,
\* and a failure report that finds retryCount at 5 is answered with an error
\* and leaves the command unchanged.
C38_RetryCountBounded ==
    [][/\ \A id \in DOMAIN commands' : commands'[id].retryCount \in 0..5
       /\ \A k \in CallIds :
              (ReportSave(k) /\ ~calls[k].success /\ calls[k].doc.retryCount = 5)
              => /\ resp'.code = 500
                 /\ commands' = commands]_vars

C38_Witness ==
    /\ resp.op = "report" /\ resp.code = 500
    /\ Known(resp.id)
    /\ commands[resp.id].retryCount = 5
    /\ commands[resp.id].status = "failed"

\* C39: no step of pull, acknowledge, result report, cancel or retry changes
\* the type, payload, priority, deviceId or parentId of a stored command or
\* removes a command; only the removal by the TTL index takes a record away.
C39_AppendOnly ==
    [][\/ \E id \in DOMAIN commands : TTLDelete(id)
       \/ \A id \in DOMAIN commands :
              /\ id \in DOMAIN commands'
              /\ commands'[id].type = commands[id].type
              /\ commands'[id].command = commands[id].command
              /\ commands'[id].priority = commands[id].priority
              /\ commands'[id].deviceId = commands[id].deviceId
              /\ commands'[id].parentId = commands[id].parentId]_vars

C39_Witness ==
    \E a, b \in DOMAIN commands :
        /\ a < b
        /\ commands[a].status = "failed"
        /\ commands[a].retryCount = 5
        /\ commands[a].type = "show_message"
        /\ commands[a].command = "data2"
        /\ commands[a].priority = "low"
        /\ commands[b].status = "completed"
        /\ commands[b].command = "data2"
        /\ commands[b].priority = "low"

\* C40: a command whose status is delivered has its deliveredAt set.
C40_DeliveredAtSet ==
    \A id \in DOMAIN commands :
        commands[id].status = "delivered" => commands[id].deliveredAt # NoDate

=============================================================================
